---- MODULE Spec2Model ----
(***************************************************************************)
(* Model of the layers of mlable/tensorflow/layers.py, of the tokun         *)
(* Encoder / Decoder / AutoEncoder composition and of main() of gpm/cli.py. *)
(*                                                                         *)
(* A tensor is a record [err, shape, data]: shape is the tuple of its       *)
(* dimensions and data its elements in row-major order (the order          *)
(* tf.reshape preserves).  A raised exception is a record whose err field   *)
(* names the exception.  Normalization works on IEEE 754 binary32 floats.   *)
(* The kernels of linear                                                   *)
(* layers hold integers, on which matmul and addition are exact; a one-hot  *)
(* row selects a row of the embedding kernel exactly.                       *)
(***************************************************************************)
EXTENDS Integers, Sequences, FiniteSets, TLC

VARIABLES
    norm, ncall,        \* a BatchNormalization layer and its last call
    merge, rcall,       \* a Merge layer and the last Merge / Reshape calls
    emb, ecall,         \* an Embedding layer and its last call
    attn, acall,        \* an Attention layer and its last call
    model, fcall,       \* an AutoEncoder and its last forward pass
    lnorm, lcall,       \* a LayerNormalization layer and its last call
    cli                 \* an execution of the command-line main()

vars == <<norm, ncall, merge, rcall, emb, ecall, attn, acall, model, fcall,
          lnorm, lcall, cli>>
modelVars == <<model, fcall>>
normVars == <<norm, ncall>>
reshapeVars == <<merge, rcall>>
embVars == <<emb, ecall>>
attnVars == <<attn, acall>>
layerVars == <<lnorm, lcall>>
cliVars == <<cli>>

\* ------------------------------------------------------------------ bounds
MaxCalls == 3
MaxDim == 3
MaxFactor == 3
MaxDepth == 2
MaxGroup == 3
MaxLen == 9
MaxPasses == 2

\* ----------------------------------------------------------------- tensors
Tensor(shape, data) == [err |-> "", shape |-> shape, data |-> data]
Raise(e) == [err |-> e, shape |-> <<>>, data |-> <<>>]
NoneT == Raise("None")
IsTensor(t) == t.err = ""
\* the element of a set of one element
The(S) == CHOOSE v \in S : TRUE

RECURSIVE Prod(_)
Prod(s) == IF s = <<>> THEN 1 ELSE Head(s) * Prod(Tail(s))

RECURSIVE SumSeq(_)
SumSeq(s) == IF s = <<>> THEN 0 ELSE Head(s) + SumSeq(Tail(s))

Stride(shape, i) == Prod(SubSeq(shape, i + 1, Len(shape)))
Unravel(k, shape) == [i \in 1..Len(shape) |-> (k \div Stride(shape, i)) % shape[i]]
Ravel(idx, shape) == SumSeq([i \in 1..Len(shape) |-> idx[i] * Stride(shape, i)])
Get(t, idx) == t.data[Ravel(idx, t.shape) + 1]


\* numpy broadcasting of two shapes
MaxOf(a, b) == IF a >= b THEN a ELSE b
Pad(s, r) == [i \in 1..r |-> IF i <= r - Len(s) THEN 1 ELSE s[i - (r - Len(s))]]
Compatible(s1, s2) ==
    LET r == MaxOf(Len(s1), Len(s2))
        p1 == Pad(s1, r)
        p2 == Pad(s2, r)
    IN \A i \in 1..r : p1[i] = p2[i] \/ p1[i] = 1 \/ p2[i] = 1
BroadcastShape(s1, s2) ==
    LET r == MaxOf(Len(s1), Len(s2))
        p1 == Pad(s1, r)
        p2 == Pad(s2, r)
    IN [i \in 1..r |-> IF p1[i] = 1 THEN p2[i] ELSE p1[i]]
BGet(t, idx) ==
    LET off == Len(idx) - Len(t.shape)
    IN Get(t, [j \in 1..Len(t.shape) |-> IF t.shape[j] = 1 THEN 0 ELSE idx[j + off]])

\* ---------------------------------------------- floating-point arithmetic
\* a float is an IEEE 754 binary32 number, a record [kind, s, m, e].  A
\* finite one stands for s * m * 2^e, with the sign s in {1, -1}, and
\* 2^23 <= m < 2^24 and -149 <= e <= 104 when it is normal, m < 2^23 and
\* e = -149 when it is subnormal or zero.  Results are rounded to the nearest
\* float, ties to the even one.  Products and quotients are taken 12 and 7
\* bits at a time, so that no intermediate value leaves the 32-bit integers.
Zero(s) == [kind |-> "finite", s |-> s, m |-> 0, e |-> -149]
Inf(s) == [kind |-> "inf", s |-> s, m |-> 0, e |-> 0]
NaN == [kind |-> "nan", s |-> 1, m |-> 0, e |-> 0]
Finite(v) == v.kind = "finite"
Abs(v) == IF v < 0 THEN -v ELSE v
Sign(v) == IF v < 0 THEN -1 ELSE 1
\* the number of bits of n >= 0
RECURSIVE BitLen(_)
BitLen(n) ==
    IF n >= 2 ^ 16 THEN 16 + BitLen(n \div (2 ^ 16))
    ELSE IF n >= 2 ^ 8 THEN 8 + BitLen(n \div (2 ^ 8))
    ELSE IF n >= 2 ^ 4 THEN 4 + BitLen(n \div (2 ^ 4))
    ELSE IF n >= 2 THEN 1 + BitLen(n \div 2)
    ELSE n
\* the float nearest to s * (n + f) * 2^e, for an integer n >= 0 and a
\* fraction f that is 0, or some value strictly between 0 and 1 when
\* sticky is true (then n has more than 24 bits, or the result is subnormal)
\* (The operands of an operation are evaluated once, then the operation is
\* applied to their values: The({f(x) : x \in {a}}) is f(a).)
Round(s, n, e, sticky) ==
    The({ The({ The({ LET up == IF k >= 31
                                THEN k = 31 /\ (int > 2 ^ 30 \/ (int = 2 ^ 30 /\ lost))
                                ELSE r > 2 ^ (k - 1)
                                     \/ (r = 2 ^ (k - 1) /\ (lost \/ q % 2 = 1))
                          m == IF k <= 0 THEN int * (2 ^ (-k))
                               ELSE IF up THEN q + 1 ELSE q
                      IN IF m = 0 THEN Zero(sign)
                         ELSE IF m = 2 ^ 24
                              THEN (IF ex + k + 1 > 104 THEN Inf(sign)
                                    ELSE [kind |-> "finite", s |-> sign,
                                          m |-> 2 ^ 23, e |-> ex + k + 1])
                         ELSE IF ex + k > 104 THEN Inf(sign)
                         ELSE [kind |-> "finite", s |-> sign, m |-> m, e |-> ex + k]
                      : q \in {IF k <= 0 \/ k >= 31 THEN 0 ELSE int \div (2 ^ k)},
                        r \in {IF k <= 0 \/ k >= 31 THEN 0 ELSE int % (2 ^ k)} })
                : k \in {IF BitLen(int) - 24 > -149 - ex
                         THEN BitLen(int) - 24 ELSE -149 - ex} })
          : sign \in {s}, int \in {n}, ex \in {e}, lost \in {sticky} })
\* the float of an integer
Float(n) == The({ Round(Sign(v), Abs(v), 0, FALSE) : v \in {n} })
\* a finite float other than zero with its mantissa brought to 24 bits
Normal(a) ==
    The({ [m |-> a.m * (2 ^ up), e |-> a.e - up] : up \in {24 - BitLen(a.m)} })
\* the sum of two finite floats: the one of smaller exponent is aligned on
\* the other, which is given up to three more bits; lost tells that bits of
\* the smaller one fell beyond them
AddFinite(a, b) ==
    IF a.m = 0 /\ b.m = 0 THEN Zero(IF a.s = -1 /\ b.s = -1 THEN -1 ELSE 1)
    ELSE IF a.m = 0 THEN b
    ELSE IF b.m = 0 THEN a
    ELSE The({ The({ The({ The({ IF hi.s = lo.s
                                 THEN Round(hi.s, high + low, hi.e - g, lost)
                                 ELSE IF n = 0 /\ ~lost THEN Zero(1)
                                 ELSE IF n < 0 THEN Round(lo.s, -n, hi.e - g, FALSE)
                                 ELSE Round(hi.s, n, hi.e - g, lost)
                                 : n \in {high - low - (IF lost THEN 1 ELSE 0)} })
                           : high \in {hi.m * (2 ^ g)},
                             low \in {IF d - g >= 25 THEN 0 ELSE lo.m \div (2 ^ (d - g))},
                             lost \in {IF d - g >= 25 THEN TRUE
                                       ELSE lo.m % (2 ^ (d - g)) # 0} })
                     : d \in {hi.e - lo.e},
                       g \in {IF hi.e - lo.e < 3 THEN hi.e - lo.e ELSE 3} })
               : hi \in {IF a.e >= b.e THEN a ELSE b},
                 lo \in {IF a.e >= b.e THEN b ELSE a} })
\* the product of two finite floats: the 48 bits of the product of the
\* mantissas, computed in halves of 12 bits
MulFinite(a, b) ==
    IF a.m = 0 \/ b.m = 0 THEN Zero(a.s * b.s)
    ELSE The({ The({ The({ The({ Round(a.s * b.s, q * 16 + r \div (2 ^ 20),
                                       x.e + y.e + 20, r % (2 ^ 20) # 0)
                                 : q \in {h1 * h2 + c \div 4096 + t \div (2 ^ 24)},
                                   r \in {t % (2 ^ 24)} })
                           : c \in {h1 * l2 + l1 * h2},
                             t \in {((h1 * l2 + l1 * h2) % 4096) * 4096 + l1 * l2} })
                     : h1 \in {x.m \div 4096}, l1 \in {x.m % 4096},
                       h2 \in {y.m \div 4096}, l2 \in {y.m % 4096} })
               : x \in {Normal(a)}, y \in {Normal(b)} })
\* the quotient of two finite floats other than zero, by long division
DivFinite(a, b) ==
    The({ The({ The({ The({ The({ Round(a.s * b.s,
                                        ((((x.m \div y.m) * 128 + (r0 * 128) \div y.m) * 128
                                          + (r1 * 128) \div y.m) * 128
                                         + (r2 * 128) \div y.m) * 128 + (r3 * 128) \div y.m,
                                        x.e - y.e - 28, (r3 * 128) % y.m # 0)
                                  : r3 \in {(r2 * 128) % y.m} })
                            : r2 \in {(r1 * 128) % y.m} })
                      : r1 \in {(r0 * 128) % y.m} })
                : r0 \in {x.m % y.m} })
          : x \in {Normal(a)}, y \in {Normal(b)} })
\* IEEE 754: a nan makes a nan, as do inf - inf, 0 * inf, inf / inf and 0 / 0;
\* a finite value over an infinity is zero and a value over zero an infinity
FAdd(a, b) ==
    The({ IF x.kind = "nan" \/ y.kind = "nan" THEN NaN
          ELSE IF Finite(x) /\ Finite(y) THEN AddFinite(x, y)
          ELSE IF Finite(x) THEN y
          ELSE IF Finite(y) \/ x = y THEN x
          ELSE NaN : x \in {a}, y \in {b} })
FSub(a, b) ==
    The({ FAdd(x, IF y.kind = "nan" THEN NaN ELSE [y EXCEPT !.s = -y.s])
          : x \in {a}, y \in {b} })
FMul(a, b) ==
    The({ IF x.kind = "nan" \/ y.kind = "nan" THEN NaN
          ELSE IF Finite(x) /\ Finite(y) THEN MulFinite(x, y)
          ELSE IF (Finite(x) /\ x.m = 0) \/ (Finite(y) /\ y.m = 0) THEN NaN
          ELSE Inf(x.s * y.s) : x \in {a}, y \in {b} })
FDiv(a, b) ==
    The({ IF x.kind = "nan" \/ y.kind = "nan" THEN NaN
          ELSE IF ~Finite(x) THEN (IF Finite(y) THEN Inf(x.s * y.s) ELSE NaN)
          ELSE IF ~Finite(y) THEN Zero(x.s * y.s)
          ELSE IF y.m = 0 THEN (IF x.m = 0 THEN NaN ELSE Inf(x.s * y.s))
          ELSE IF x.m = 0 THEN Zero(x.s * y.s)
          ELSE DivFinite(x, y) : x \in {a}, y \in {b} })

\* the integer square root of n * 4^13, two bits of n at a time: i counts
\* the 26 steps, root and rem are the root and the remainder so far
RECURSIVE SqrtRoot(_, _, _, _)
SqrtRoot(n, rem, root, i) ==
    IF i > 26 THEN [root |-> root, rem |-> rem]
    ELSE The({ IF r >= 4 * t + 1
               THEN SqrtRoot(n, r - (4 * t + 1), 2 * t + 1, i + 1)
               ELSE SqrtRoot(n, r, 2 * t, i + 1)
               : r \in {rem * 4 + (IF i <= 13 THEN (n \div (4 ^ (13 - i))) % 4 ELSE 0)},
                 t \in {root} })
\* the square root: the exponent is made even, then the root of the
\* mantissa is taken to 26 bits
FSqrt(a) ==
    The({ IF v.kind = "nan" THEN NaN
          ELSE IF Finite(v) /\ v.m = 0 THEN v
          ELSE IF v.s < 0 THEN NaN
          ELSE IF ~Finite(v) THEN v
          ELSE LET x == Normal(v)
                   odd == x.e % 2 = 1
                   mant == IF odd THEN x.m * 2 ELSE x.m
                   ex == IF odd THEN x.e - 1 ELSE x.e
               IN The({ Round(1, sq.root, ex \div 2 - 13, sq.rem # 0)
                        : sq \in {SqrtRoot(mant, 0, 0, 1)} })
          : v \in {a} })
\* a python float written as the fraction n / d, and the float32 tensorflow
\* makes of it
PyFloat(n, d) == [n |-> n, d |-> d]
ToFloat(p) == FDiv(Float(p.n), Float(p.d))
\* the weights and the inputs of the scenarios are written as integers, in
\* units of 1 / Scale
Scale == 10 ^ 5

\* the elementwise operations: float +, -, *, / and the integer +
BinOp(op, u, v) ==
    CASE op = "add" -> FAdd(u, v)
      [] op = "sub" -> FSub(u, v)
      [] op = "mul" -> FMul(u, v)
      [] op = "div" -> FDiv(u, v)
      [] op = "iadd" -> u + v

\* an elementwise binary operation with broadcasting; an operand that is an
\* exception is the exception that ended the computation
Map2(op, a, b) ==
    The({ IF ~IsTensor(x) THEN x
          ELSE IF ~IsTensor(y) THEN y
          ELSE IF ~Compatible(x.shape, y.shape) THEN Raise("InvalidArgumentError")
          ELSE The({ Tensor(s, [k \in 1..Prod(s) |->
                         BinOp(op, BGet(x, Unravel(k - 1, s)), BGet(y, Unravel(k - 1, s)))])
                     : s \in {BroadcastShape(x.shape, y.shape)} })
          : x \in {a}, y \in {b} })
TAdd(a, b) == Map2("add", a, b)
TSub(a, b) == Map2("sub", a, b)
TMul(a, b) == Map2("mul", a, b)
TDiv(a, b) == Map2("div", a, b)
Scalar(v) == Tensor(<<>>, <<v>>)
\* the float tensor of a tensor of integers in units of 1 / Scale
FloatTensor(t) ==
    Tensor(t.shape, [k \in 1..Len(t.data) |-> ToFloat(PyFloat(t.data[k], Scale))])

\* ------------------------------------------------------------ reductions
\* the elements of x along `axis` (0-based, non-negative) at the kept index idx
Along(x, axis, idx) ==
    [i \in 1..x.shape[axis + 1] |->
        Get(x, [j \in 1..Len(x.shape) |-> IF j = axis + 1 THEN i - 1 ELSE idx[j]])]
RECURSIVE FSum(_)
FSum(s) == IF s = <<>> THEN Zero(1) ELSE FAdd(FSum(SubSeq(s, 1, Len(s) - 1)), s[Len(s)])
FMean(s) == FDiv(FSum(s), Float(Len(s)))
\* tf.math.reduce_std: the square root of the mean of the squared deviations
FStd(s) ==
    The({ FSqrt(FMean([i \in 1..Len(s) |->
              The({ FMul(dev, dev) : dev \in {FSub(s[i], m)} })]))
          : m \in {FMean(s)} })
\* tf.math.reduce_mean / reduce_std with keepdims=True; tf accepts an axis in
\* -rank..rank-1
Reduce(stat, x, axis) ==
    The({ IF ~IsTensor(t) THEN t
          ELSE IF axis < -Len(t.shape) \/ axis >= Len(t.shape)
               THEN Raise("InvalidArgumentError")
          ELSE LET a == axis % Len(t.shape)
                   s == [t.shape EXCEPT ![a + 1] = 1]
               IN Tensor(s, [k \in 1..Prod(s) |->
                      IF stat = "mean" THEN FMean(Along(t, a, Unravel(k - 1, s)))
                      ELSE FStd(Along(t, a, Unravel(k - 1, s)))])
          : t \in {x} })
ReduceMean(x, axis) == Reduce("mean", x, axis)
ReduceStd(x, axis) == Reduce("std", x, axis)

\* ------------------------------------------------------------ initializer
\* mlable.tensorflow.initializers.SmallNormal draws small values around
\* zero, of either sign; the draw is a choice among these, laid out by seed
InitVals == <<10000, -200, 0, 3000>>
NSeeds == 3
Fill(shape, seed) ==
    Tensor(shape, [k \in 1..Prod(shape) |-> InitVals[((seed + k - 1) % Len(InitVals)) + 1]])

\* -------------------------------------------------- BatchNormalization
DefaultMomentum == PyFloat(99, 100)
DefaultEpsilon == PyFloat(1, 1000)
DefaultAxis == 0

\* an attribute of a layer: the object it refers to.  var names the tracked
\* variable (created by add_weight) the attribute refers to, "" when it
\* refers to a plain tensor or to None.
Attr(var, t) == [var |-> var, t |-> t]
NoAttr == Attr("", NoneT)

\* __init__
NormNew(axis, momentum, epsilon) ==
    [axis |-> axis, momentum |-> momentum, epsilon |-> epsilon, built |-> FALSE,
     mean |-> NoAttr, stddev |-> NoAttr, gain |-> NoAttr, bias |-> NoAttr,
     weights |-> <<>>, wshape |-> <<>>]

\* the shape of the weights: the input shape without the axis
NormWeightShape(self, shape) ==
    LET axis == self.axis % Len(shape)
        keep == {i \in 1..Len(shape) : i - 1 # axis}
        pos(n) == CHOOSE i \in keep : Cardinality({j \in keep : j < i}) = n - 1
    IN [n \in 1..Cardinality(keep) |-> shape[pos(n)]]

\* build: four weights created by add_weight and bound to the attributes
NormBuild(self, shape, seeds) ==
    The({ The({ [self EXCEPT !.built = TRUE,
                             !.mean = Attr("mean", w.mean),
                             !.stddev = Attr("stddev", w.stddev),
                             !.gain = Attr("gain", w.gain),
                             !.bias = Attr("bias", w.bias),
                             !.weights = w,
                             !.wshape = s]
                : w \in {[mean |-> FloatTensor(Fill(s, seeds[1])),
                          stddev |-> FloatTensor(Fill(s, seeds[2])),
                          gain |-> FloatTensor(Fill(s, seeds[3])),
                          bias |-> FloatTensor(Fill(s, seeds[4]))]} })
          : s \in {NormWeightShape(self, shape)} })

\* the exponential moving average of lines 46-47
\* 1. - self._momentum is python arithmetic on python floats; each factor
\* becomes a float32 when it meets a tensor
NormRunning(momentum, running, batch) ==
    The({ TAdd(TMul(Scalar(ToFloat(m)), running),
               TMul(Scalar(ToFloat(PyFloat(m.d - m.n, m.d))), batch))
          : m \in {momentum} })

\* call, lines 43-47: the statistics of the current input and the new
\* running statistics
NormBatchMean(self, inputs) == ReduceMean(inputs, self.axis)
NormBatchStddev(self, inputs) == ReduceStd(inputs, self.axis)
NormNewMean(self, inputs) ==
    NormRunning(self.momentum, self.mean.t, NormBatchMean(self, inputs))
NormNewStddev(self, inputs) ==
    NormRunning(self.momentum, self.stddev.t, NormBatchStddev(self, inputs))

\* call, lines 46-47: the attributes are rebound to the new tensors, one
\* statement after the other (an exception leaves the later ones undone)
NormRebind(self, mean, stddev) ==
    IF ~IsTensor(mean) THEN self
    ELSE IF ~IsTensor(stddev) THEN [self EXCEPT !.mean = Attr("", mean)]
    ELSE [self EXCEPT !.mean = Attr("", mean), !.stddev = Attr("", stddev)]
NormUpdate(self, inputs) ==
    The({ NormRebind(layer, mean, stddev)
          : layer \in {self},
            mean \in {NormNewMean(self, inputs)},
            stddev \in {NormNewStddev(self, inputs)} })

\* call, lines 49-51
NormOutput(self, inputs) ==
    The({ The({ TAdd(TMul(layer.gain.t, normalized), layer.bias.t)
                : normalized \in {TDiv(TSub(inputs, layer.mean.t),
                                       TAdd(layer.stddev.t,
                                            Scalar(ToFloat(layer.epsilon))))} })
          : layer \in {self} })

\* call, line 41: the update runs in training mode only
NormTrainAlways(self, inputs, training) == NormUpdate(self, inputs)
NormTrain(self, inputs, training) ==
    IF training THEN NormUpdate(self, inputs) ELSE self

\* the value call(inputs, training) returns, or the exception it raises
NormResult(self, inputs, training) ==
    IF training
    THEN The({ IF ~IsTensor(mean) THEN mean
               ELSE IF ~IsTensor(stddev) THEN stddev
               ELSE NormOutput(NormRebind(self, mean, stddev), inputs)
               : mean \in {NormNewMean(self, inputs)},
                 stddev \in {NormNewStddev(self, inputs)} })
    ELSE NormOutput(NormTrain(self, inputs, training), inputs)

\* -------------------------------------------------- LayerNormalization
DefaultLayerAxis == -1

\* the classes of the module and the class each one derives from (lines 8, 53)
Bases == [BatchNormalization |-> "Layer", LayerNormalization |-> "Layer",
          Layer |-> "object"]
IsSubclass(c, d) ==
    \/ c = d
    \/ c \in DOMAIN Bases /\ Bases[c] = d
    \/ c \in DOMAIN Bases /\ Bases[c] \in DOMAIN Bases /\ Bases[Bases[c]] = d

\* super(cls, self): python accepts self only when it is an instance of cls,
\* and raises TypeError otherwise
Super(cls, selfcls) == IF IsSubclass(selfcls, cls) THEN "" ELSE "TypeError"

\* __init__, lines 54-68: line 61 is super(BatchNormalization, self), with
\* self an instance of LayerNormalization; the assignments of lines 62-68 run
\* after it.  err names the exception the constructor raised, and self is
\* the layer when it raised none.
LayerNormNew(axis, momentum, epsilon) ==
    IF Super("BatchNormalization", "LayerNormalization") = ""
    THEN [err |-> "", self |-> NormNew(axis, momentum, epsilon)]
    ELSE [err |-> Super("BatchNormalization", "LayerNormalization"),
          self |-> NormNew(DefaultLayerAxis, 0, 0)]

\* build (lines 70-83) and call (lines 85-96) are those of BatchNormalization,
\* statement for statement
LayerNormBuild(self, shape, seeds) == NormBuild(self, shape, seeds)
LayerNormTrain(self, inputs, training) == NormTrain(self, inputs, training)
LayerNormResult(self, inputs, training) == NormResult(self, inputs, training)

\* ------------------------------------------------------------------ linear
\* tf.matmul of a [..., n, k] tensor by a [k, m] matrix, on integers
MatMul(a, b) ==
    IF ~IsTensor(a) THEN a
    ELSE IF ~IsTensor(b) THEN b
    ELSE IF Len(a.shape) < 2 \/ Len(b.shape) # 2 THEN Raise("InvalidArgumentError")
    ELSE IF a.shape[Len(a.shape)] # b.shape[1] THEN Raise("InvalidArgumentError")
    ELSE LET r == Len(a.shape)
             inner == b.shape[1]
             width == b.shape[2]
             s == [a.shape EXCEPT ![r] = width]
             \* row-major: element k - 1 = row * width + col, and row `row` of a
             \* starts at offset row * inner of its data
             cell(row, col) == SumSeq([l \in 1..inner |->
                                  a.data[row * inner + l] * b.data[(l - 1) * width + col + 1]])
         IN Tensor(s, [k \in 1..Prod(s) |-> cell((k - 1) \div width, (k - 1) % width)])

\* the weights of the linear layers hold small integers
KernelVals == <<1, -1, 2, 0, 3>>
FillKernel(shape, seed) ==
    Tensor(shape, [k \in 1..Prod(shape) |-> KernelVals[((seed + k - 1) % Len(KernelVals)) + 1]])

\* Dense.__init__
DenseNew(units, use_bias) ==
    [units |-> units, biased |-> use_bias, built |-> FALSE,
     kernel |-> NoAttr, bias |-> NoAttr]

\* Dense.build
DenseBuild(self, shape, seed) ==
    [self EXCEPT !.built = TRUE,
                 !.kernel = Attr("kernel", FillKernel(<<shape[Len(shape)], self.units>>, seed)),
                 !.bias = IF self.biased
                          THEN Attr("bias", FillKernel(<<self.units>>, seed + 1))
                          ELSE NoAttr]

\* Dense.call
DenseCallResult(self, inputs) ==
    IF self.biased /\ self.bias.t # NoneT
    THEN Map2("iadd", MatMul(inputs, self.kernel.t), self.bias.t)
    ELSE MatMul(inputs, self.kernel.t)

\* the layer after layer(inputs): Keras builds a layer that is not built,
\* the initializer drawing the weights (seed), and runs call, which assigns
\* no attribute of the layer
DenseCallRebuilt(self, inputs, seed) ==
    DenseBuild(self, <<0, self.kernel.t.shape[1]>>, seed + 1)
DenseCallAfter(self, inputs, seed) ==
    IF self.built \/ ~IsTensor(inputs) \/ inputs.shape = <<>> THEN self
    ELSE DenseBuild(self, inputs.shape, seed)

\* --------------------------------------------------------------- embedding
\* tf.one_hot: an index outside 0..depth-1 gives a row of zeros
OneHot(indices, depth) ==
    IF ~IsTensor(indices) THEN indices
    ELSE LET s == indices.shape \o <<depth>>
         IN Tensor(s, [k \in 1..Prod(s) |->
                IF indices.data[((k - 1) \div depth) + 1] = (k - 1) % depth THEN 1 ELSE 0])

\* Embedding.__init__
EmbeddingNew(input_dim, output_dim, add_position) ==
    [add_position |-> add_position, input_dim |-> input_dim, output_dim |-> output_dim,
     time_dim |-> -1, built |-> FALSE,
     content_kernel |-> NoAttr, position_kernel |-> NoAttr]

\* Embedding.build
EmbeddingBuild(self, shape, seed) ==
    [self EXCEPT !.built = TRUE,
                 !.content_kernel =
                     Attr("content-kernel", Fill(<<self.input_dim, self.output_dim>>, seed)),
                 !.time_dim = shape[Len(shape)],
                 !.position_kernel =
                     IF self.add_position
                     THEN Attr("position-kernel",
                               Fill(<<shape[Len(shape)], self.output_dim>>, seed + 1))
                     ELSE NoAttr]

\* Embedding.call, lines 207-208: the content embedding.  The one-hot
\* entries are the exact numbers 0 and 1, so the product by the kernel is
\* exact whatever the kernel holds.
EmbeddingContent(self, inputs) ==
    MatMul(OneHot(inputs, self.input_dim), self.content_kernel.t)

\* Embedding.call, lines 210-212: line 212 reads the name __values, which
\* nothing binds, so the position branch raises NameError
EmbeddingPosition(self, y) == Raise("NameError")

\* Embedding.call: lines 207-208 run first, so an exception of the content
\* embedding is the one raised, whatever the position branch would do
EmbeddingCallResult(self, inputs) ==
    IF ~IsTensor(EmbeddingContent(self, inputs)) THEN EmbeddingContent(self, inputs)
    ELSE IF self.add_position
    THEN EmbeddingPosition(self, EmbeddingContent(self, inputs))
    ELSE EmbeddingContent(self, inputs)

\* --------------------------------------------------------------- attention
\* Attention.__init__
AttentionNew(head_dim, head_count) ==
    [head_dim |-> head_dim, head_count |-> head_count, time_dim |-> -1, built |-> FALSE,
     key |-> NoAttr, query |-> NoAttr, value |-> NoAttr]

\* Attention.build
AttentionBuild(self, shape, seed) ==
    LET s == <<shape[Len(shape)], self.head_dim>>
    IN [self EXCEPT !.built = TRUE,
                    !.time_dim = shape[Len(shape)],
                    !.key = Attr("key", FillKernel(s, seed)),
                    !.query = Attr("query", FillKernel(s, seed + 1)),
                    !.value = Attr("value", FillKernel(s, seed + 2))]

\* Attention.call, lines 159-161: __perm is a range object, and a range
\* does not support item assignment: line 160 raises TypeError
RangeSetItem(length, index, value) == Raise("TypeError")

\* Attention.call: the exception of line 160 ends every call, before the
\* projections, the mask and the softmax of lines 163-175 run
AttentionCallResult(self, inputs) ==
    LET rank == Len(inputs.shape)
    IN RangeSetItem(rank, -1, rank - 2)

\* --------------------------------------------------------------- reshaping
\* tf.reshape: the same elements in the same row-major order under another
\* shape, an error when the element counts differ
\* a dimension given as -1 is the one tf.reshape infers from the element count
InferShape(t, shape) ==
    LET known == Prod([i \in 1..Len(shape) |-> IF shape[i] = -1 THEN 1 ELSE shape[i]])
    IN [i \in 1..Len(shape) |->
           IF shape[i] = -1 /\ known > 0 THEN Prod(t.shape) \div known ELSE shape[i]]
TfReshape(t, shape) ==
    IF ~IsTensor(t) THEN t
    ELSE IF Cardinality({i \in 1..Len(shape) : shape[i] = -1}) > 1
         THEN Raise("InvalidArgumentError")
    ELSE IF \E i \in 1..Len(shape) : InferShape(t, shape)[i] < 0
         THEN Raise("InvalidArgumentError")
    ELSE IF Prod(InferShape(t, shape)) # Prod(t.shape) THEN Raise("InvalidArgumentError")
    ELSE Tensor(InferShape(t, shape), t.data)

\* Merge.__init__
MergeNew(axis, n) == [axis |-> axis, n |-> n]

\* Merge.call, lines 261-266: the target shape
MergeShapeSwapped(self, shape) ==
    LET axis0 == self.axis % Len(shape)
        axis1 == (self.axis + 1) % Len(shape)
        s0 == [shape EXCEPT ![axis0 + 1] = shape[axis0 + 1] * self.n]
    IN [s0 EXCEPT ![axis1 + 1] = shape[axis1 + 1] \div self.n]
MergeShape(self, shape) ==
    LET axis0 == self.axis % Len(shape)
        axis1 == (self.axis + 1) % Len(shape)
        s0 == [shape EXCEPT ![axis0 + 1] = shape[axis0 + 1] \div self.n]
    IN [s0 EXCEPT ![axis1 + 1] = shape[axis1 + 1] * self.n]

\* Merge.call
MergeCallResult(self, inputs) ==
    IF ~IsTensor(inputs) THEN inputs
    ELSE IF Len(inputs.shape) = 0 THEN Raise("ZeroDivisionError")
    ELSE IF self.n = 0 THEN Raise("ZeroDivisionError")
    ELSE TfReshape(inputs, MergeShape(self, inputs.shape))

\* Reshape.__init__ and Reshape.call
ReshapeNew(target_shape) == [shape |-> target_shape]
ReshapeCallResult(self, inputs) == TfReshape(inputs, self.shape)

\* Merge and Reshape have no weights to build, and their call assigns local
\* names only: the layer after layer(inputs)
MergeCallAfter(self, inputs) == self
ReshapeCallAfter(self, inputs) == self

\* ------------------------------------------------------------ the blocks
\* TokenizeBlock (attention off): Merge folding token_dim consecutive
\* embeddings into one, then a Dense projection to latent_dim
TokenizeBlockNew(left_axis, right_axis, token_dim, latent_dim, width, seed) ==
    [merge |-> MergeNew(left_axis, token_dim),
     dense |-> DenseBuild(DenseNew(latent_dim, TRUE), <<0, token_dim * width>>, seed)]
TokenizeBlockCall(self, x) ==
    DenseCallResult(self.dense, MergeCallResult(self.merge, x))
TokenizeBlockCallAfter(self, x, seed) ==
    [merge |-> MergeCallAfter(self.merge, x),
     dense |-> DenseCallAfter(self.dense, MergeCallResult(self.merge, x), seed)]

\* DetokenizeBlock (attention off): a Dense projection to token_dim *
\* embedding_dim, then a Reshape splitting each row into token_dim rows
DetokenizeBlockNew(token_dim, embedding_dim, width, seed) ==
    [dense |-> DenseBuild(DenseNew(token_dim * embedding_dim, TRUE), <<0, width>>, seed),
     reshape |-> ReshapeNew(<<-1, embedding_dim>>)]
DetokenizeBlockCall(self, x) ==
    ReshapeCallResult(self.reshape, DenseCallResult(self.dense, x))
DetokenizeBlockCallAfter(self, x, seed) ==
    [dense |-> DenseCallAfter(self.dense, x, seed),
     reshape |-> ReshapeCallAfter(self.reshape, DenseCallResult(self.dense, x))]

\* HeadBlock: a Dense projection to encoding_dim
HeadBlockNew(encoding_dim, width, seed) ==
    [dense |-> DenseBuild(DenseNew(encoding_dim, TRUE), <<0, width>>, seed)]
HeadBlockCall(self, x) == DenseCallResult(self.dense, x)
HeadBlockCallAfter(self, x, seed) == [dense |-> DenseCallAfter(self.dense, x, seed)]

\* ------------------------------------------- Encoder, Decoder, AutoEncoder
\* Encoder.__init__: a Dense embedding without bias, then depth
\* TokenizeBlocks on the axes -2 and -1, each projecting to latent_dim
EncoderNew(depth, token_dim, encoding_dim, embedding_dim, latent_dim, seed) ==
    [depth |-> depth,
     embed |-> DenseBuild(DenseNew(embedding_dim, FALSE), <<0, encoding_dim>>, seed),
     blocks |-> [i \in 1..depth |->
        TokenizeBlockNew(-2, -1, token_dim, latent_dim,
                         IF i = 1 THEN embedding_dim ELSE latent_dim, seed + i)]]

\* the Sequential of the Encoder after its first k blocks
RECURSIVE EncoderSteps(_, _, _)
EncoderSteps(self, x, k) ==
    IF k = 0 THEN DenseCallResult(self.embed, x)
    ELSE TokenizeBlockCall(self.blocks[k], EncoderSteps(self, x, k - 1))

\* Encoder.call
EncoderCallShort(self, x) == EncoderSteps(self, x, self.depth - 1)
EncoderCallResult(self, x) == EncoderSteps(self, x, self.depth)

\* the Encoder after self._encoder(x): the Sequential calls each layer on
\* the output of the layer before it
EncoderCallAfter(self, x, seed) ==
    [self EXCEPT !.embed = DenseCallAfter(self.embed, x, seed),
                 !.blocks = [k \in 1..self.depth |->
                     TokenizeBlockCallAfter(self.blocks[k],
                                            EncoderSteps(self, x, k - 1), seed)]]

\* Decoder.__init__: depth DetokenizeBlocks, then the HeadBlock
DecoderNew(depth, token_dim, encoding_dim, embedding_dim, latent_dim, seed) ==
    [depth |-> depth,
     blocks |-> [i \in 1..depth |->
        DetokenizeBlockNew(token_dim, embedding_dim,
                           IF i = 1 THEN latent_dim ELSE embedding_dim, seed + i)],
     head |-> HeadBlockNew(encoding_dim, embedding_dim, seed + 2)]

\* the Sequential of the Decoder after its first k blocks
RECURSIVE DecoderSteps(_, _, _)
DecoderSteps(self, x, k) ==
    IF k = 0 THEN x
    ELSE DetokenizeBlockCall(self.blocks[k], DecoderSteps(self, x, k - 1))

\* Decoder.call
DecoderCallResult(self, x) == HeadBlockCall(self.head, DecoderSteps(self, x, self.depth))

\* the Decoder after self._decoder(x)
DecoderCallAfter(self, x, seed) ==
    [self EXCEPT !.blocks = [k \in 1..self.depth |->
                     DetokenizeBlockCallAfter(self.blocks[k],
                                              DecoderSteps(self, x, k - 1), seed)],
                 !.head = HeadBlockCallAfter(self.head,
                                             DecoderSteps(self, x, self.depth), seed)]

\* AutoEncoder.__init__
AutoEncoderNew(depth, token_dim, encoding_dim, embedding_dim, latent_dim, seed) ==
    [depth |-> depth, token_dim |-> token_dim, encoding_dim |-> encoding_dim,
     embedding_dim |-> embedding_dim, latent_dim |-> latent_dim,
     encoder |-> EncoderNew(depth, token_dim, encoding_dim, embedding_dim, latent_dim, seed),
     decoder |-> DecoderNew(depth, token_dim, encoding_dim, embedding_dim, latent_dim, seed + 1)]

\* AutoEncoder.call
AutoEncoderCallResult(self, x) ==
    DecoderCallResult(self.decoder, EncoderCallResult(self.encoder, x))

\* the AutoEncoder after MODEL._encoder(x) and after MODEL(x)
ForwardAfter(kind, self, x, seed) ==
    IF kind = "encoder"
    THEN [self EXCEPT !.encoder = EncoderCallAfter(self.encoder, x, seed)]
    ELSE [self EXCEPT !.encoder = EncoderCallAfter(self.encoder, x, seed),
                      !.decoder = DecoderCallAfter(self.decoder,
                                      EncoderCallResult(self.encoder, x), seed)]

\* ------------------------------------------------------- the gpm CLI
\* A string is the sequence of its character codes: '' is <<>>.  An option
\* of the command line is <<>> when absent and <<value>> when given.  The
\* standard output is the sequence of the lines written to it.

\* the defaults of the arguments, lines 15-23
CliDefaults ==
    [master_key |-> <<>>, login_target |-> <<>>, login_id |-> <<>>,
     password_length |-> 16, password_nonce |-> 1,
     include_lower |-> TRUE, include_upper |-> TRUE, include_digits |-> TRUE,
     include_symbols |-> FALSE]
Opt(given, default) == IF given = <<>> THEN default ELSE given[1]

\* vars(parser.parse_args()), line 26, of a command line argparse accepts:
\* "store" keeps the value given, "store_false" (-a, -A, -d) and
\* "store_true" (-s) set the constant when the flag is there
ParseArgs(argv) ==
    [master_key |-> Opt(argv.key, CliDefaults.master_key),
     login_target |-> Opt(argv.target, CliDefaults.login_target),
     login_id |-> Opt(argv.id, CliDefaults.login_id),
     password_length |-> Opt(argv.length, CliDefaults.password_length),
     password_nonce |-> Opt(argv.nonce, CliDefaults.password_nonce),
     include_lower |-> IF "a" \in argv.flags THEN FALSE ELSE CliDefaults.include_lower,
     include_upper |-> IF "A" \in argv.flags THEN FALSE ELSE CliDefaults.include_upper,
     include_digits |-> IF "d" \in argv.flags THEN FALSE ELSE CliDefaults.include_digits,
     include_symbols |-> IF "s" \in argv.flags THEN TRUE ELSE CliDefaults.include_symbols]

\* the names the module binds (lines 3-6, 10, 50) and the builtins main uses
ModuleGlobals == {"argparse", "functools", "gpm", "main", "_process"}
Builtins == {"input", "print", "vars", "str", "int"}
Bound(name) == name \in ModuleGlobals \cup Builtins

\* the usage of each option, lines 15-23, with the -h argparse adds
UsageParts ==
    \* [-h]
    << <<91, 45, 104, 93>>,
    \* [--key MASTER_KEY]
       <<91, 45, 45, 107, 101, 121, 32, 77, 65, 83, 84, 69, 82, 95, 75, 69,
         89, 93>>,
    \* [--target LOGIN_TARGET]
       <<91, 45, 45, 116, 97, 114, 103, 101, 116, 32, 76, 79, 71, 73, 78, 95,
         84, 65, 82, 71, 69, 84, 93>>,
    \* [--id LOGIN_ID]
       <<91, 45, 45, 105, 100, 32, 76, 79, 71, 73, 78, 95, 73, 68, 93>>,
    \* [--length PASSWORD_LENGTH]
       <<91, 45, 45, 108, 101, 110, 103, 116, 104, 32, 80, 65, 83, 83, 87,
         79, 82, 68, 95, 76, 69, 78, 71, 84, 72, 93>>,
    \* [--nonce PASSWORD_NONCE]
       <<91, 45, 45, 110, 111, 110, 99, 101, 32, 80, 65, 83, 83, 87, 79, 82,
         68, 95, 78, 79, 78, 67, 69, 93>>,
    \* [--lower]
       <<91, 45, 45, 108, 111, 119, 101, 114, 93>>,
    \* [--upper]
       <<91, 45, 45, 117, 112, 112, 101, 114, 93>>,
    \* [--digits]
       <<91, 45, 45, 100, 105, 103, 105, 116, 115, 93>>,
    \* [--symbols]
       <<91, 45, 45, 115, 121, 109, 98, 111, 108, 115, 93>> >>
\* the description, line 14, and the help of each option, lines 15-23
HelpBody ==
    \* (an empty line)
    << <<>>,
    \* Generate / retrieve the password matching the input informations.
       <<71, 101, 110, 101, 114, 97, 116, 101, 32, 47, 32, 114, 101, 116,
         114, 105, 101, 118, 101, 32, 116, 104, 101, 32, 112, 97, 115, 115,
         119, 111, 114, 100, 32, 109, 97, 116, 99, 104, 105, 110, 103, 32,
         116, 104, 101, 32, 105, 110, 112, 117, 116, 32, 105, 110, 102, 111,
         114, 109, 97, 116, 105, 111, 110, 115, 46>>,
    \* (an empty line)
       <<>>,
    \* options:
       <<111, 112, 116, 105, 111, 110, 115, 58>>,
    \*   -h, --help            show this help message and exit
       <<32, 32, 45, 104, 44, 32, 45, 45, 104, 101, 108, 112, 32, 32, 32, 32,
         32, 32, 32, 32, 32, 32, 32, 32, 115, 104, 111, 119, 32, 116, 104,
         105, 115, 32, 104, 101, 108, 112, 32, 109, 101, 115, 115, 97, 103,
         101, 32, 97, 110, 100, 32, 101, 120, 105, 116>>,
    \*   --key MASTER_KEY, -k MASTER_KEY
       <<32, 32, 45, 45, 107, 101, 121, 32, 77, 65, 83, 84, 69, 82, 95, 75,
         69, 89, 44, 32, 45, 107, 32, 77, 65, 83, 84, 69, 82, 95, 75, 69, 89>>,
    \*                         the master key (all ASCII)
       <<32, 32, 32, 32, 32, 32, 32, 32, 32, 32, 32, 32, 32, 32, 32, 32, 32,
         32, 32, 32, 32, 32, 32, 32, 116, 104, 101, 32, 109, 97, 115, 116,
         101, 114, 32, 107, 101, 121, 32, 40, 97, 108, 108, 32, 65, 83, 67,
         73, 73, 41>>,
    \*   --target LOGIN_TARGET, -t LOGIN_TARGET
       <<32, 32, 45, 45, 116, 97, 114, 103, 101, 116, 32, 76, 79, 71, 73, 78,
         95, 84, 65, 82, 71, 69, 84, 44, 32, 45, 116, 32, 76, 79, 71, 73, 78,
         95, 84, 65, 82, 71, 69, 84>>,
    \*                         the login target (URL, IP, name, etc)
       <<32, 32, 32, 32, 32, 32, 32, 32, 32, 32, 32, 32, 32, 32, 32, 32, 32,
         32, 32, 32, 32, 32, 32, 32, 116, 104, 101, 32, 108, 111, 103, 105,
         110, 32, 116, 97, 114, 103, 101, 116, 32, 40, 85, 82, 76, 44, 32,
         73, 80, 44, 32, 110, 97, 109, 101, 44, 32, 101, 116, 99, 41>>,
    \*   --id LOGIN_ID, -i LOGIN_ID
       <<32, 32, 45, 45, 105, 100, 32, 76, 79, 71, 73, 78, 95, 73, 68, 44,
         32, 45, 105, 32, 76, 79, 71, 73, 78, 95, 73, 68>>,
    \*                         the login id (username, email, etc)
       <<32, 32, 32, 32, 32, 32, 32, 32, 32, 32, 32, 32, 32, 32, 32, 32, 32,
         32, 32, 32, 32, 32, 32, 32, 116, 104, 101, 32, 108, 111, 103, 105,
         110, 32, 105, 100, 32, 40, 117, 115, 101, 114, 110, 97, 109, 101,
         44, 32, 101, 109, 97, 105, 108, 44, 32, 101, 116, 99, 41>>,
    \*   --length PASSWORD_LENGTH, -l PASSWORD_LENGTH
       <<32, 32, 45, 45, 108, 101, 110, 103, 116, 104, 32, 80, 65, 83, 83,
         87, 79, 82, 68, 95, 76, 69, 78, 71, 84, 72, 44, 32, 45, 108, 32, 80,
         65, 83, 83, 87, 79, 82, 68, 95, 76, 69, 78, 71, 84, 72>>,
    \*                         the length of the password (default 16)
       <<32, 32, 32, 32, 32, 32, 32, 32, 32, 32, 32, 32, 32, 32, 32, 32, 32,
         32, 32, 32, 32, 32, 32, 32, 116, 104, 101, 32, 108, 101, 110, 103,
         116, 104, 32, 111, 102, 32, 116, 104, 101, 32, 112, 97, 115, 115,
         119, 111, 114, 100, 32, 40, 100, 101, 102, 97, 117, 108, 116, 32,
         49, 54, 41>>,
    \*   --nonce PASSWORD_NONCE, -n PASSWORD_NONCE
       <<32, 32, 45, 45, 110, 111, 110, 99, 101, 32, 80, 65, 83, 83, 87, 79,
         82, 68, 95, 78, 79, 78, 67, 69, 44, 32, 45, 110, 32, 80, 65, 83, 83,
         87, 79, 82, 68, 95, 78, 79, 78, 67, 69>>,
    \*                         the nonce of the password (default 1)
       <<32, 32, 32, 32, 32, 32, 32, 32, 32, 32, 32, 32, 32, 32, 32, 32, 32,
         32, 32, 32, 32, 32, 32, 32, 116, 104, 101, 32, 110, 111, 110, 99,
         101, 32, 111, 102, 32, 116, 104, 101, 32, 112, 97, 115, 115, 119,
         111, 114, 100, 32, 40, 100, 101, 102, 97, 117, 108, 116, 32, 49, 41>>,
    \*   --lower, -a           exclude lowercase letters from the password
       <<32, 32, 45, 45, 108, 111, 119, 101, 114, 44, 32, 45, 97, 32, 32, 32,
         32, 32, 32, 32, 32, 32, 32, 32, 101, 120, 99, 108, 117, 100, 101,
         32, 108, 111, 119, 101, 114, 99, 97, 115, 101, 32, 108, 101, 116,
         116, 101, 114, 115, 32, 102, 114, 111, 109, 32, 116, 104, 101, 32,
         112, 97, 115, 115, 119, 111, 114, 100>>,
    \*   --upper, -A           exclude uppercase letters from the password
       <<32, 32, 45, 45, 117, 112, 112, 101, 114, 44, 32, 45, 65, 32, 32, 32,
         32, 32, 32, 32, 32, 32, 32, 32, 101, 120, 99, 108, 117, 100, 101,
         32, 117, 112, 112, 101, 114, 99, 97, 115, 101, 32, 108, 101, 116,
         116, 101, 114, 115, 32, 102, 114, 111, 109, 32, 116, 104, 101, 32,
         112, 97, 115, 115, 119, 111, 114, 100>>,
    \*   --digits, -d          exclude digits from the password
       <<32, 32, 45, 45, 100, 105, 103, 105, 116, 115, 44, 32, 45, 100, 32,
         32, 32, 32, 32, 32, 32, 32, 32, 32, 101, 120, 99, 108, 117, 100,
         101, 32, 100, 105, 103, 105, 116, 115, 32, 102, 114, 111, 109, 32,
         116, 104, 101, 32, 112, 97, 115, 115, 119, 111, 114, 100>>,
    \*   --symbols, -s         include symbols in the password
       <<32, 32, 45, 45, 115, 121, 109, 98, 111, 108, 115, 44, 32, 45, 115,
         32, 32, 32, 32, 32, 32, 32, 32, 32, 105, 110, 99, 108, 117, 100,
         101, 32, 115, 121, 109, 98, 111, 108, 115, 32, 105, 110, 32, 116,
         104, 101, 32, 112, 97, 115, 115, 119, 111, 114, 100>> >>
\* 'usage: '
UsagePrefix ==
    <<117, 115, 97, 103, 101, 58, 32>>
\* '> Master key:'
MasterKeyPrompt ==
    <<62, 32, 77, 97, 115, 116, 101, 114, 32, 107, 101, 121, 58>>
\* '> Login target:'
LoginTargetPrompt ==
    <<62, 32, 76, 111, 103, 105, 110, 32, 116, 97, 114, 103, 101, 116, 58>>

\* the width argparse formats for: the 80 columns of a terminal of unknown
\* size, less 2
TextWidth == 78
RECURSIVE Join(_)
Join(parts) ==
    IF Len(parts) = 1 THEN parts[1]
    ELSE Join(SubSeq(parts, 1, Len(parts) - 1)) \o <<32>> \o parts[Len(parts)]
\* HelpFormatter._format_usage, get_lines: a part that does not fit the
\* width opens a new line, indented under the first option
RECURSIVE GetLines(_, _, _, _, _)
GetLines(parts, indent, line, line_len, lines) ==
    LET start == IF lines = <<>> THEN UsagePrefix ELSE indent
    IN IF parts = <<>>
       THEN (IF line = <<>> THEN lines ELSE Append(lines, start \o Join(line)))
       ELSE IF line_len + 1 + Len(parts[1]) > TextWidth /\ line # <<>>
       THEN GetLines(parts, indent, <<>>, Len(indent) - 1,
                     Append(lines, start \o Join(line)))
       ELSE GetLines(Tail(parts), indent, Append(line, parts[1]),
                     line_len + Len(parts[1]) + 1, lines)
\* the usage is longer than the width and prog is short (the prefix and prog
\* take at most three quarters of the width)
FormatUsage(prog) ==
    GetLines(<<prog>> \o UsageParts,
             [k \in 1..(Len(UsagePrefix) + Len(prog) + 1) |-> 32],
             <<>>, Len(UsagePrefix) - 1, <<>>)
\* parser.format_help(), the lines -h writes to the standard output
FormatHelp(prog) == FormatUsage(prog) \o HelpBody
\* parser.error(), the lines a rejected command line writes to the standard
\* error: the usage, then prog followed by
\* ': error: unrecognized arguments: -x'
FormatError(prog) ==
    Append(FormatUsage(prog),
           prog \o
           <<58, 32, 101, 114, 114, 111, 114, 58, 32, 117, 110, 114, 101, 99,
             111, 103, 110, 105, 122, 101, 100, 32, 97, 114, 103, 117, 109,
             101, 110, 116, 115, 58, 32, 45, 120>>)

\* gpm.pipeline.process: a password of password_length characters of the
\* included classes, a function of the key, the target, the id and the nonce
Alphabet(args) ==
    (IF args.include_lower THEN <<97, 98>> ELSE <<>>)
    \o (IF args.include_upper THEN <<65, 66>> ELSE <<>>)
    \o (IF args.include_digits THEN <<48, 49>> ELSE <<>>)
    \o (IF args.include_symbols THEN <<33>> ELSE <<>>)
PipelineProcess(args) ==
    LET seed == SumSeq(args.master_key) + SumSeq(args.login_target)
                + SumSeq(args.login_id) + args.password_nonce
    IN IF Alphabet(args) = <<>> THEN <<>>
       ELSE [k \in 1..args.password_length |->
                Alphabet(args)[((seed + k) % Len(Alphabet(args))) + 1]]

\* main() at line 25, after lines 12-23: the password is '', nothing is
\* parsed yet; argv is the command line, stdin the lines input() can read,
\* read the number of lines it has read, printed the standard output and
\* errors the standard error; tty tells that the standard input and the
\* standard output are both a terminal
MainNew(argv, stdin, tty) ==
    [pc |-> "parse", argv |-> argv, stdin |-> stdin, tty |-> tty, read |-> 0,
     args |-> CliDefaults, password |-> <<>>, exc |-> "", printed |-> <<>>,
     errors |-> <<>>]

\* ------------------------------------------- the normalization scenario
NormAxes == {DefaultAxis, -1}
NormMomenta == {DefaultMomentum, PyFloat(1, 2)}
NormInputs ==
    { FloatTensor(Tensor(<<2, 2>>, <<0, Scale, 2 * Scale, Scale>>)),
      FloatTensor(Tensor(<<2, 2>>, <<Scale, Scale, Scale, Scale>>)),
      FloatTensor(Tensor(<<3, 2>>, <<-Scale, 3 * Scale, Scale, 0, 0, 0>>)),
      FloatTensor(Tensor(<<3, 2>>, <<Scale \div 2, Scale \div 2, Scale \div 2,
                                     Scale \div 2, Scale \div 2, Scale \div 2>>)) }
NormSeeds == {<<a, b, 3, 0>> : a \in 0..(NSeeds - 1), b \in 0..(NSeeds - 1)}

NoCall == [n |-> 0, x |-> NoneT, training |-> FALSE, out |-> NoneT,
           before |-> NormNew(0, 0, 0),
           px |-> NoneT, ptraining |-> FALSE, pout |-> NoneT]

NoReshape == [pc |-> "new", x |-> NoneT, merged |-> NoneT,
              target |-> <<>>, restored |-> NoneT]
NoLayerCall == [n |-> 0, x |-> NoneT, out |-> NoneT, px |-> NoneT, pout |-> NoneT]

NoArgv == [prog |-> <<>>, key |-> <<>>, target |-> <<>>, id |-> <<>>, length |-> <<>>,
           nonce |-> <<>>, flags |-> {}, exit |-> ""]
NoMain == [MainNew(NoArgv, <<>>, FALSE) EXCEPT !.pc = "idle"]

\* the objects of the scenarios that a scenario leaves aside
IdleNorm == norm = NormNew(DefaultAxis, DefaultMomentum, DefaultEpsilon) /\ ncall = NoCall
IdleReshape == merge = MergeNew(0, 1) /\ rcall = NoReshape
IdleEmbedding == emb = EmbeddingNew(1, 1, FALSE) /\ ecall = NoLayerCall
IdleAttention == attn = AttentionNew(1, 1) /\ acall = NoLayerCall
NoForward == [n |-> 0, kind |-> "", x |-> NoneT, out |-> NoneT, latent |-> NoneT,
              enc_steps |-> <<>>, dec_steps |-> <<>>, before |-> <<>>,
              pkind |-> "", px |-> NoneT, platent |-> NoneT]
IdleModel == model = <<>> /\ fcall = NoForward
IdleLayerNorm ==
    lnorm = LayerNormNew(DefaultLayerAxis, DefaultMomentum, DefaultEpsilon) /\ lcall = NoCall
IdleCli == cli = NoMain

InitNorm ==
    /\ \E axis \in NormAxes, momentum \in NormMomenta :
          norm = NormNew(axis, momentum, DefaultEpsilon)
    /\ ncall = NoCall
    /\ IdleReshape /\ IdleEmbedding /\ IdleAttention /\ IdleModel /\ IdleLayerNorm /\ IdleCli

\* layer(inputs, training): Keras builds the layer on its first call, with the
\* shape of that call's input, then runs call
NormCall ==
    \E x \in NormInputs, training \in BOOLEAN, seeds \in NormSeeds :
        /\ ncall.n < MaxCalls
        /\ norm.built => x.shape = ncall.x.shape
        /\ norm.built => seeds = <<0, 0, 3, 0>>
        /\ \E self \in {IF norm.built THEN norm ELSE NormBuild(norm, x.shape, seeds)} :
              /\ norm' = NormTrain(self, x, training)
              /\ ncall' = [n |-> ncall.n + 1, x |-> x, training |-> training,
                           out |-> NormResult(self, x, training),
                           before |-> self,
                           px |-> ncall.x, ptraining |-> ncall.training,
                           pout |-> ncall.out]
              /\ UNCHANGED <<reshapeVars, embVars, attnVars, modelVars, layerVars, cliVars>>

NextNorm == NormCall

SpecNorm == InitNorm /\ [][NextNorm]_vars

\* ------------------------------------------------ the reshaping scenario
\* tensors of rank 1 to 3 with dimensions 0..MaxDim, holding 1, 2, 3, ... in
\* row-major order, so that every element is told from every other
Iota(shape) == Tensor(shape, [k \in 1..Prod(shape) |-> k])
ReshapeShapes ==
    { <<a>> : a \in 0..MaxDim }
    \cup { <<a, b>> : a \in 0..MaxDim, b \in 0..MaxDim }
    \cup { <<c, a, b>> : c \in 1..2, a \in 0..MaxDim, b \in 0..2 }
MergeAxes == {0, 1, -1, -2}

InitReshape ==
    /\ \E axis \in MergeAxes, n \in 0..MaxFactor : merge = MergeNew(axis, n)
    /\ rcall = NoReshape
    /\ IdleNorm /\ IdleEmbedding /\ IdleAttention /\ IdleModel /\ IdleLayerNorm /\ IdleCli

\* Merge(axis, n)(x)
MergeCall ==
    \E shape \in ReshapeShapes :
        /\ rcall.pc = "new"
        /\ rcall' = [rcall EXCEPT !.pc = "merged", !.x = Iota(shape),
                                  !.merged = MergeCallResult(merge, Iota(shape))]
        /\ UNCHANGED <<merge, normVars, embVars, attnVars, modelVars, layerVars, cliVars>>

\* Reshape(target)(merged), for the shape of x and for other targets
ReshapeCall ==
    \E target \in {rcall.x.shape, <<Prod(rcall.x.shape)>>, <<Prod(rcall.x.shape) + 1>>} :
        /\ rcall.pc = "merged"
        /\ IsTensor(rcall.merged)
        /\ rcall' = [rcall EXCEPT !.pc = "restored", !.target = target,
                        !.restored = ReshapeCallResult(ReshapeNew(target), rcall.merged)]
        /\ UNCHANGED <<merge, normVars, embVars, attnVars, modelVars, layerVars, cliVars>>

NextReshape == MergeCall \/ ReshapeCall

SpecReshape == InitReshape /\ [][NextReshape]_vars

\* ------------------------------------------------ the embedding scenario
EmbeddingInputs ==
    { Tensor(<<1>>, <<0>>),
      Tensor(<<2>>, <<0, 1>>),
      Tensor(<<2>>, <<1, 1>>),
      Tensor(<<3>>, <<1, 2, 0>>),
      Tensor(<<2, 2>>, <<0, 1, 1, 3>>),
      Tensor(<<2, 3>>, <<2, 0, 1, -1, 1, 1>>) }

InitEmbedding ==
    /\ \E input_dim \in 2..3, output_dim \in 1..2, add_position \in BOOLEAN :
          emb = EmbeddingNew(input_dim, output_dim, add_position)
    /\ ecall = NoLayerCall
    /\ IdleNorm /\ IdleReshape /\ IdleAttention /\ IdleModel /\ IdleLayerNorm /\ IdleCli

\* layer(indices): built on the first call, then call
EmbeddingCall ==
    \E x \in EmbeddingInputs, seed \in 0..(NSeeds - 1) :
        /\ ecall.n < MaxCalls
        /\ emb.built => (seed = 0 /\ x.shape = ecall.x.shape)
        /\ LET self == IF emb.built THEN emb ELSE EmbeddingBuild(emb, x.shape, seed)
           IN /\ emb' = self
              /\ ecall' = [n |-> ecall.n + 1, x |-> x,
                           out |-> EmbeddingCallResult(self, x),
                           px |-> ecall.x, pout |-> ecall.out]
        /\ UNCHANGED <<normVars, reshapeVars, attnVars, modelVars, layerVars, cliVars>>

NextEmbedding == EmbeddingCall

SpecEmbedding == InitEmbedding /\ [][NextEmbedding]_vars

\* ------------------------------------------------ the attention scenario
\* inputs of shape [T, D], with T = D so that the D x D mask of line 169
\* fits the T x T scores, and with T # D
AttentionInputs ==
    { Tensor(<<1, 1>>, <<2>>),
      Tensor(<<1, 2>>, <<1, 3>>),
      Tensor(<<2, 2>>, <<1, 0, 0, 1>>),
      Tensor(<<2, 2>>, <<1, 0, 2, 5>>),
      Tensor(<<2, 2>>, <<1, 0, -3, 4>>),
      Tensor(<<3, 2>>, <<1, 2, 0, 1, 4, 4>>),
      Tensor(<<3, 2>>, <<1, 2, 0, 1, -1, 0>>),
      Tensor(<<3, 3>>, <<1, 0, 0, 0, 1, 0, 0, 0, 1>>),
      Tensor(<<3, 3>>, <<1, 0, 0, 0, 1, 0, 2, 2, 2>>) }

InitAttention ==
    /\ \E head_dim \in 1..2 : attn = AttentionNew(head_dim, 1)
    /\ acall = NoLayerCall
    /\ IdleNorm /\ IdleReshape /\ IdleEmbedding /\ IdleModel /\ IdleLayerNorm /\ IdleCli

\* layer(inputs): built on the first call, then call
AttentionCall ==
    \E x \in AttentionInputs, seed \in 0..(NSeeds - 1) :
        /\ acall.n < MaxCalls
        /\ attn.built => (seed = 0 /\ x.shape = acall.x.shape)
        /\ LET self == IF attn.built THEN attn ELSE AttentionBuild(attn, x.shape, seed)
           IN /\ attn' = self
              /\ acall' = [n |-> acall.n + 1, x |-> x,
                           out |-> AttentionCallResult(self, x),
                           px |-> acall.x, pout |-> acall.out]
        /\ UNCHANGED <<normVars, reshapeVars, embVars, modelVars, layerVars, cliVars>>

NextAttention == AttentionCall

SpecAttention == InitAttention /\ [][NextAttention]_vars

\* ------------------------------------------------ the autoencoder scenario
\* a sequence of L symbols of the vocabulary 0..U-1, one-hot encoded: [L, U]
Symbols(L, U, pattern) == Tensor(<<L>>, [i \in 1..L |-> ((i - 1) * (pattern + 1) + pattern) % U])
ModelInput(L, U, pattern) == OneHot(Symbols(L, U, pattern), U)
Dims == {<<2, 2>>, <<2, 1>>, <<1, 2>>}

InitModel ==
    /\ \E depth \in 1..MaxDepth, token_dim \in 2..MaxGroup, encoding_dim \in 2..3,
          dims \in Dims, seed \in 0..1 :
          model = AutoEncoderNew(depth, token_dim, encoding_dim, dims[1], dims[2], seed)
    /\ fcall = NoForward
    /\ IdleNorm /\ IdleReshape /\ IdleEmbedding /\ IdleAttention /\ IdleLayerNorm /\ IdleCli

\* seed lays out the weights of the layers the pass builds; the layers of
\* the model are built when it is constructed, and a pass on built layers
\* draws nothing
Forward(kind, x, seed) ==
    /\ fcall.n < MaxPasses
    /\ fcall.n >= 1 => x.shape = fcall.x.shape
    /\ model.encoder.embed.built => seed = 0
    /\ model' = ForwardAfter(kind, model, x, seed)
    /\ \E latent \in {EncoderCallResult(model.encoder, x)} :
          fcall' = [n |-> fcall.n + 1, kind |-> kind, x |-> x,
                    out |-> IF kind = "encoder" THEN latent
                            ELSE AutoEncoderCallResult(model, x),
                    latent |-> latent,
                    enc_steps |-> [k \in 1..model.depth |->
                        EncoderSteps(model.encoder, x, k).shape],
                    dec_steps |-> [k \in 1..model.depth |->
                        DecoderSteps(model.decoder, latent, k).shape],
                    before |-> model,
                    pkind |-> fcall.kind, px |-> fcall.x, platent |-> fcall.latent]
    /\ UNCHANGED <<normVars, reshapeVars, embVars, attnVars, layerVars, cliVars>>

\* MODEL._encoder(x)
EncoderForward ==
    \E L \in 1..MaxLen, pattern \in 0..1, seed \in 0..1 :
        Forward("encoder", ModelInput(L, model.encoding_dim, pattern), seed)

\* MODEL(x)
AutoEncoderForward ==
    \E L \in 1..MaxLen, pattern \in 0..1, seed \in 0..1 :
        Forward("auto", ModelInput(L, model.encoding_dim, pattern), seed)

NextModel == EncoderForward \/ AutoEncoderForward

SpecModel == InitModel /\ [][NextModel]_vars

\* ------------------------------------------------ claims on reshaping
MergedAxis == merge.axis % Len(rcall.x.shape)

\* C3: for x of shape [..., A, B] with A divisible by n, Merge on the axis
\* of A returns the shape [..., A/n, B*n] with the same elements in the same
\* row-major order, and Reshape to the shape of x returns x.
C3_MergeRoundTrip ==
    (/\ rcall.pc # "new"
     /\ MergedAxis + 2 <= Len(rcall.x.shape)
     /\ merge.n >= 1
     /\ rcall.x.shape[MergedAxis + 1] % merge.n = 0)
    => /\ IsTensor(rcall.merged)
       /\ rcall.merged.shape =
             [rcall.x.shape EXCEPT
                 ![MergedAxis + 1] = rcall.x.shape[MergedAxis + 1] \div merge.n,
                 ![MergedAxis + 2] = rcall.x.shape[MergedAxis + 2] * merge.n]
       /\ rcall.merged.data = rcall.x.data
       /\ (rcall.pc = "restored" /\ rcall.target = rcall.x.shape) => rcall.restored = rcall.x
C3_Witness ==
    /\ rcall.pc = "restored" /\ rcall.target = rcall.x.shape
    /\ Len(rcall.x.shape) = 3 /\ merge.axis = -2 /\ merge.n = 2
    /\ rcall.x.shape = <<2, 2, 2>>
    /\ rcall.merged.shape = <<2, 1, 4>>
    /\ rcall.restored = rcall.x

\* C4: merging a sequence whose length A along the merged axis is not
\* divisible by n always ends in an error.
C4_NonDivisibleRaises ==
    (/\ rcall.pc # "new"
     /\ merge.n >= 1
     /\ rcall.x.shape[MergedAxis + 1] % merge.n # 0)
    => ~IsTensor(rcall.merged)

\* ------------------------------------------------ claims on embedding
\* the content embedding the claim describes: row x[..., t] of the content
\* kernel, zeros for an index the one-hot encoding does not cover
ClaimedContent(self, x) ==
    LET r == Len(x.shape)
        s == x.shape \o <<self.output_dim>>
        cell(idx) ==
            LET sym == Get(x, SubSeq(idx, 1, r))
            IN IF sym \in 0..(self.input_dim - 1)
               THEN Get(self.content_kernel.t, <<sym, idx[r + 1]>>)
               ELSE 0
    IN Tensor(s, [k \in 1..Prod(s) |-> cell(Unravel(k - 1, s))])
\* the positional term the claim describes: the positions 0..T-1, normalized
\* by their mean and standard deviation, each scaling its row of the
\* position kernel
ClaimedPosition(self) ==
    LET T == self.time_dim
        pos == [t \in 1..T |-> Float(t - 1)]
        normalized == [t \in 1..T |-> FDiv(FSub(pos[t], FMean(pos)), FStd(pos))]
        s == <<T, self.output_dim>>
    IN Tensor(s, [k \in 1..Prod(s) |->
            FMul(normalized[Unravel(k - 1, s)[1] + 1],
                 ToFloat(PyFloat(self.position_kernel.t.data[k], Scale)))])

\* C10: Embedding.call on indices of shape [..., T] returns a tensor of shape
\* [..., T, output_dim]: the content embedding when add_position is false,
\* the content embedding plus the positional term when it is true.
C10_EmbeddingCall ==
    ecall.n >= 1 =>
        /\ IsTensor(ecall.out)
        /\ ecall.out.shape = ecall.x.shape \o <<emb.output_dim>>
        /\ ~emb.add_position => ecall.out = ClaimedContent(emb, ecall.x)
        /\ emb.add_position =>
              FloatTensor(ecall.out) = TAdd(FloatTensor(ClaimedContent(emb, ecall.x)),
                                            ClaimedPosition(emb))

\* ------------------------------------------------ claims on attention
Row(t, i) == SubSeq(t.data, i * t.shape[2] + 1, (i + 1) * t.shape[2])

\* C2: for two inputs of the same length that agree on the positions 0..i,
\* the outputs of Attention.call at position i are equal.
C2_AttentionCausal ==
    acall.n >= 2 =>
        \A i \in 0..(acall.x.shape[1] - 1) :
            (\A j \in 0..i : Row(acall.x, j) = Row(acall.px, j))
            => /\ IsTensor(acall.out) /\ IsTensor(acall.pout)
               /\ Row(acall.out, i) = Row(acall.pout, i)

\* C9: Attention.call on an input of shape [T, D] returns a tensor of shape
\* [T, head_dim]; position 0 attends to itself alone, so row 0 of the output
\* is the value projection of input position 0 (for T = 1, the whole output
\* is the value projection of the input).
C9_AttentionOutput ==
    acall.n >= 1 =>
        /\ IsTensor(acall.out)
        /\ acall.out.shape = <<acall.x.shape[1], attn.head_dim>>
        /\ Row(acall.out, 0) = Row(MatMul(acall.x, attn.value.t), 0)

\* ------------------------------------------------ claims on the autoencoder
SeqLen == fcall.x.shape[1]
Groups == model.token_dim ^ model.depth

\* C5: for an input of length L = G^D * m the AutoEncoder returns L
\* positions of width U: the k-th TokenizeBlock leaves L / G^k positions, the
\* Encoder L / G^D latent vectors, the k-th DetokenizeBlock (L / G^D) * G^k
\* positions, and the HeadBlock L positions of width U.
C5_AutoEncoderShape ==
    (fcall.n >= 1 /\ fcall.kind = "auto" /\ SeqLen % Groups = 0) =>
        /\ IsTensor(fcall.out)
        /\ fcall.out.shape = <<SeqLen, model.encoding_dim>>
        /\ fcall.latent.shape = <<SeqLen \div Groups, model.latent_dim>>
        /\ \A k \in 1..model.depth :
              /\ fcall.enc_steps[k][1] = SeqLen \div (model.token_dim ^ k)
              /\ fcall.dec_steps[k][1] = (SeqLen \div Groups) * (model.token_dim ^ k)
C5_Witness ==
    /\ fcall.n >= 1 /\ fcall.kind = "auto"
    /\ model.depth = 2 /\ model.token_dim = 2 /\ SeqLen = 8
    /\ fcall.latent.shape[1] = 2
    /\ fcall.out.shape = <<8, model.encoding_dim>>

NormStats(self) == <<self.mean, self.stddev>>

\* C1: a call with training=False on a built layer leaves the running mean
\* and the running standard deviation as they were at the call's entry; two
\* consecutive calls with training=False on the same input return the same
\* output; the running statistics differ from those at entry only after a
\* call made with training=True.
C1_InferenceLeavesStatistics ==
    ncall.n >= 1 =>
        /\ ~ncall.training => NormStats(norm) = NormStats(ncall.before)
        /\ (ncall.n >= 2 /\ ~ncall.training /\ ~ncall.ptraining /\ ncall.x = ncall.px)
              => ncall.out = ncall.pout
        /\ NormStats(norm) # NormStats(ncall.before) => ncall.training
C1_Witness ==
    /\ ncall.n >= 2 /\ ~ncall.training /\ ~ncall.ptraining /\ ncall.x = ncall.px
    /\ IsTensor(ncall.out)
    /\ norm.mean.var = ""

\* the elements of the rank-2 input x from which the statistic of the kept
\* index f is taken: the column f when the axis is 0, the row f when it is 1
ClaimedLane(x, axis, f) ==
    [i \in 1..x.shape[axis + 1] |-> Get(x, IF axis = 0 THEN <<i - 1, f>> ELSE <<f, i - 1>>)]
\* momentum * previous + (1 - momentum) * statistic
ClaimedRunning(momentum, previous, statistic) ==
    FAdd(FMul(ToFloat(momentum), previous),
         FMul(ToFloat(PyFloat(momentum.d - momentum.n, momentum.d)), statistic))

\* C7: a call with training=True on a [N, C] input replaces the running mean
\* and the running standard deviation of each kept index f (a column when the
\* layer's axis is 0, a row when it is -1) by momentum * previous value +
\* (1 - momentum) * the mean / standard deviation of the input over the axis
\* at f, and returns an output whose every element is gain * (input - mean) /
\* (stddev + epsilon) + bias with the updated mean and stddev of its kept
\* index.
C7_TrainingUpdate ==
    (ncall.n >= 1 /\ ncall.training) =>
        LET axis == norm.axis % 2
            kept == ncall.x.shape[2 - axis]
        IN /\ Len(norm.mean.t.data) = kept
           /\ Len(norm.stddev.t.data) = kept
           /\ \A f \in 0..(kept - 1) :
                 /\ norm.mean.t.data[f + 1] =
                        ClaimedRunning(norm.momentum, ncall.before.mean.t.data[f + 1],
                                       FMean(ClaimedLane(ncall.x, axis, f)))
                 /\ norm.stddev.t.data[f + 1] =
                        ClaimedRunning(norm.momentum, ncall.before.stddev.t.data[f + 1],
                                       FStd(ClaimedLane(ncall.x, axis, f)))
           /\ IsTensor(ncall.out)
           /\ ncall.out.shape = ncall.x.shape
           /\ \A k \in 1..Len(ncall.out.data) :
                 LET f == Unravel(k - 1, ncall.x.shape)[2 - axis]
                 IN ncall.out.data[k] =
                        FAdd(FMul(norm.gain.t.data[f + 1],
                                  FDiv(FSub(ncall.x.data[k], norm.mean.t.data[f + 1]),
                                       FAdd(norm.stddev.t.data[f + 1],
                                            ToFloat(norm.epsilon)))),
                             norm.bias.t.data[f + 1])

\* C8: after any sequence of calls, every weight created at build is still
\* the object its attribute refers to, with its build-time shape.
NormWeightNames == {"mean", "stddev", "gain", "bias"}
NormAttr(self, name) ==
    CASE name = "mean" -> self.mean
      [] name = "stddev" -> self.stddev
      [] name = "gain" -> self.gain
      [] name = "bias" -> self.bias
C8_WeightsPersist ==
    norm.built =>
        \A name \in NormWeightNames :
            /\ NormAttr(norm, name).var = name
            /\ NormAttr(norm, name).t.shape = norm.wshape

\* ------------------------- the scenario of the two normalization layers
\* BatchNormalization(axis, momentum, epsilon) and
\* LayerNormalization(axis, momentum, epsilon)
InitLayerNorm ==
    /\ \E axis \in NormAxes, momentum \in NormMomenta :
          /\ norm = NormNew(axis, momentum, DefaultEpsilon)
          /\ lnorm = LayerNormNew(axis, momentum, DefaultEpsilon)
    /\ ncall = NoCall
    /\ lcall = NoCall
    /\ IdleReshape /\ IdleEmbedding /\ IdleAttention /\ IdleModel /\ IdleCli

\* the same call layer(inputs, training) on each of the two layers, built on
\* their first call from the same initial weights; a layer whose constructor
\* raised does not exist and takes no call
NormPairCall ==
    \E x \in NormInputs, training \in BOOLEAN, seeds \in NormSeeds :
        /\ ncall.n < MaxCalls
        /\ norm.built => x.shape = ncall.x.shape
        /\ norm.built => seeds = <<0, 0, 3, 0>>
        /\ \E self \in {IF norm.built THEN norm ELSE NormBuild(norm, x.shape, seeds)} :
              /\ norm' = NormTrain(self, x, training)
              /\ ncall' = [n |-> ncall.n + 1, x |-> x, training |-> training,
                           out |-> NormResult(self, x, training),
                           before |-> self,
                           px |-> ncall.x, ptraining |-> ncall.training,
                           pout |-> ncall.out]
        /\ IF lnorm.err = ""
           THEN \E self \in {IF lnorm.self.built THEN lnorm.self
                               ELSE LayerNormBuild(lnorm.self, x.shape, seeds)} :
                   /\ lnorm' = [lnorm EXCEPT !.self = LayerNormTrain(self, x, training)]
                   /\ lcall' = [n |-> lcall.n + 1, x |-> x, training |-> training,
                                out |-> LayerNormResult(self, x, training),
                                before |-> self,
                                px |-> lcall.x, ptraining |-> lcall.training,
                                pout |-> lcall.out]
           ELSE UNCHANGED <<lnorm, lcall>>
        /\ UNCHANGED <<reshapeVars, embVars, attnVars, modelVars, cliVars>>

NextLayerNorm == NormPairCall

SpecLayerNorm == InitLayerNorm /\ [][NextLayerNorm]_vars

\* ---------------------------------- claims on the two normalization layers
\* C11: BatchNormalization and LayerNormalization can both be constructed,
\* built and called, and constructed with the same axis, momentum and
\* epsilon, started from the same weights and driven by the same calls, they
\* hold equal running statistics after every call and return equal outputs;
\* their default axes are 0 and -1.
C11_NormVariantsAgree ==
    /\ DefaultAxis = 0 /\ DefaultLayerAxis = -1
    /\ ncall.n >= 1 =>
          /\ lnorm.err = ""
          /\ norm.built /\ lnorm.self.built
          /\ lcall.n = ncall.n
          /\ lcall.x = ncall.x /\ lcall.training = ncall.training
          /\ lnorm.self.mean.t = norm.mean.t
          /\ lnorm.self.stddev.t = norm.stddev.t
          /\ lcall.out = ncall.out

\* ------------------------------------------ claims on the denominator
\* the denominator of line 49: running stddev + epsilon
NormDenominator(self) == TAdd(self.stddev.t, Scalar(ToFloat(self.epsilon)))

\* C12: in every state of a built normalization layer, after build and after
\* any sequence of training and inference calls, every element of the
\* denominator stddev + epsilon of the output formula is strictly positive,
\* and no call divides by zero (every output element is finite).
C12_DenominatorPositive ==
    norm.built =>
        /\ IsTensor(NormDenominator(norm))
        /\ \A k \in 1..Len(NormDenominator(norm).data) :
              /\ Finite(NormDenominator(norm).data[k])
              /\ NormDenominator(norm).data[k].s = 1
              /\ NormDenominator(norm).data[k].m > 0
        /\ IsTensor(ncall.out) =>
              \A k \in 1..Len(ncall.out.data) : Finite(ncall.out.data[k])

\* ------------------------------------------------------ the CLI scenario
\* command lines: prog is sys.argv[0]; the key and the target absent, empty
\* or given, the other options absent or given; exit tells how parse_args
\* leaves: it returns (""), it meets -h, writes the help to the standard
\* output and raises SystemExit ("help"), or it rejects the command line (an
\* unknown option -x after the options), writes the usage and the error to
\* the standard error and raises SystemExit ("error").  The help and the
\* usage are laid out for 80 columns: COLUMNS is not set and the standard
\* output is no terminal, or one of 80 columns
CliArgvs ==
    [prog : {<<103, 112, 109>>, <<99, 108, 105, 46, 112, 121>>},
     key : {<<>>, << <<>> >>, << <<107>> >>},
     target : {<<>>, << <<>> >>, << <<116>> >>},
     id : {<<>>, << <<105>> >>},
     length : {<<>>, <<4>>},
     nonce : {<<>>, <<2>>},
     flags : SUBSET {"a", "d", "s"},
     exit : {"", "help", "error"}]
\* the lines of the standard input; input() raises EOFError at its end
CliStdins == {<<>>, << <<75>> >>, << <<75>>, <<84>> >>, << <<>>, <<84>> >>}

InitCli ==
    /\ \E argv \in CliArgvs, stdin \in CliStdins, tty \in BOOLEAN :
          cli = MainNew(argv, stdin, tty)
    /\ IdleNorm /\ IdleReshape /\ IdleEmbedding /\ IdleAttention /\ IdleModel
    /\ IdleLayerNorm

\* line 26
CliParse ==
    /\ cli.pc = "parse"
    /\ cli' = IF cli.argv.exit = "help"
              THEN [cli EXCEPT !.pc = "except", !.exc = "SystemExit",
                               !.printed = cli.printed \o FormatHelp(cli.argv.prog)]
              ELSE IF cli.argv.exit = "error"
              THEN [cli EXCEPT !.pc = "except", !.exc = "SystemExit",
                               !.errors = cli.errors \o FormatError(cli.argv.prog)]
              ELSE [cli EXCEPT !.pc = "key", !.args = ParseArgs(cli.argv)]
    /\ UNCHANGED <<normVars, reshapeVars, embVars, attnVars, modelVars, layerVars>>

\* input(prompt) writes its prompt, a line, before it reads a line: when
\* the standard input and the standard output are both a terminal the
\* interpreter reads through its readline function, which writes the prompt
\* to the standard error (cli.py does not import readline); otherwise the
\* prompt is written to the standard output
Input(c, prompt) ==
    IF c.tty THEN [c EXCEPT !.errors = Append(c.errors, prompt)]
    ELSE [c EXCEPT !.printed = Append(c.printed, prompt)]

\* lines 28-29
CliPromptKey ==
    /\ cli.pc = "key"
    /\ cli' = IF cli.args.master_key # <<>> THEN [cli EXCEPT !.pc = "target"]
              ELSE IF cli.read >= Len(cli.stdin)
                   THEN [Input(cli, MasterKeyPrompt) EXCEPT
                            !.pc = "except", !.exc = "EOFError"]
              ELSE [Input(cli, MasterKeyPrompt) EXCEPT
                       !.pc = "target", !.read = cli.read + 1,
                       !.args.master_key = cli.stdin[cli.read + 1]]
    /\ UNCHANGED <<normVars, reshapeVars, embVars, attnVars, modelVars, layerVars>>

\* lines 30-31
CliPromptTarget ==
    /\ cli.pc = "target"
    /\ cli' = IF cli.args.login_target # <<>> THEN [cli EXCEPT !.pc = "call"]
              ELSE IF cli.read >= Len(cli.stdin)
                   THEN [Input(cli, LoginTargetPrompt) EXCEPT
                            !.pc = "except", !.exc = "EOFError"]
              ELSE [Input(cli, LoginTargetPrompt) EXCEPT
                       !.pc = "call", !.read = cli.read + 1,
                       !.args.login_target = cli.stdin[cli.read + 1]]
    /\ UNCHANGED <<normVars, reshapeVars, embVars, attnVars, modelVars, layerVars>>

\* lines 33-37: python looks the name process up before it evaluates the
\* arguments of the call
CliGenerate ==
    /\ cli.pc = "call"
    /\ cli' = IF ~Bound("process")
              THEN [cli EXCEPT !.pc = "except", !.exc = "NameError"]
              ELSE [cli EXCEPT !.pc = "print", !.password = PipelineProcess(cli.args)]
    /\ UNCHANGED <<normVars, reshapeVars, embVars, attnVars, modelVars, layerVars>>

\* lines 38-39: the bare except takes every exception, SystemExit included
CliExcept ==
    /\ cli.pc = "except"
    /\ cli' = [cli EXCEPT !.pc = "print"]
    /\ UNCHANGED <<normVars, reshapeVars, embVars, attnVars, modelVars, layerVars>>

\* line 41
CliPrint ==
    /\ cli.pc = "print"
    /\ cli' = [cli EXCEPT !.pc = "done", !.printed = Append(cli.printed, cli.password)]
    /\ UNCHANGED <<normVars, reshapeVars, embVars, attnVars, modelVars, layerVars>>

NextCli ==
    \/ CliParse
    \/ CliPromptKey
    \/ CliPromptTarget
    \/ CliGenerate
    \/ CliExcept
    \/ CliPrint

SpecCli == InitCli /\ [][NextCli]_vars

\* ------------------------------------------------------ claims on the CLI
\* what the claim describes: the key and the target come from the command
\* line, or from the prompt when absent or empty; the other arguments have
\* the documented defaults
ClaimedKeyPrompted(c) == Opt(c.argv.key, <<>>) = <<>>
ClaimedKey(c) == IF ClaimedKeyPrompted(c) THEN c.stdin[1] ELSE c.argv.key[1]
ClaimedTargetPrompted(c) == Opt(c.argv.target, <<>>) = <<>>
ClaimedTargetLine(c) == IF ClaimedKeyPrompted(c) THEN 2 ELSE 1
ClaimedTarget(c) ==
    IF ClaimedTargetPrompted(c) THEN c.stdin[ClaimedTargetLine(c)] ELSE c.argv.target[1]
\* the execution gets a key and a target: the command line is accepted and
\* every prompt finds a line to read
ClaimedInputs(c) ==
    /\ c.argv.exit = ""
    /\ ClaimedKeyPrompted(c) => Len(c.stdin) >= 1
    /\ ClaimedTargetPrompted(c) => Len(c.stdin) >= ClaimedTargetLine(c)
\* what the standard output holds before the final line: the help that -h
\* asks for, or, when the prompts are not those of a terminal, the prompt of
\* each argument that is asked for (the target is asked for once the key is
\* there)
ClaimedPrompts(c) ==
    IF c.argv.exit = "help" THEN FormatHelp(c.argv.prog)
    ELSE IF c.argv.exit = "error" \/ c.tty THEN <<>>
    ELSE (IF ClaimedKeyPrompted(c) THEN <<MasterKeyPrompt>> ELSE <<>>)
         \o (IF ClaimedTargetPrompted(c)
                /\ (ClaimedKeyPrompted(c) => Len(c.stdin) >= 1)
             THEN <<LoginTargetPrompt>> ELSE <<>>)
ClaimedArgs(c) ==
    [master_key |-> ClaimedKey(c), login_target |-> ClaimedTarget(c),
     login_id |-> Opt(c.argv.id, <<>>),
     password_length |-> Opt(c.argv.length, 16),
     password_nonce |-> Opt(c.argv.nonce, 1),
     include_lower |-> "a" \notin c.argv.flags,
     include_upper |-> "A" \notin c.argv.flags,
     include_digits |-> "d" \notin c.argv.flags,
     include_symbols |-> "s" \in c.argv.flags]

\* C13: main(), run with a master key and a login target (from the command
\* line, or from the prompt when absent or empty), prints the password that
\* process generates from those arguments and the documented defaults; in
\* every execution, also when parsing or generation raises, main prints
\* exactly one final line, which is empty when no password was generated:
\* the standard output is the help or the prompts followed by that line.
C13_MainPrintsPassword ==
    cli.pc = "done" =>
        cli.printed = Append(ClaimedPrompts(cli),
                             IF ClaimedInputs(cli)
                             THEN PipelineProcess(ClaimedArgs(cli))
                             ELSE <<>>)

====
